---- MODULE Spec2Model ----
(***************************************************************************)
(* A model of xml_pipeline: the MessageBus (bus.py), its CircuitBreaker    *)
(* (circuit.py) and the part of Pipeline.process (pipeline.py) that        *)
(* decides the correlation attributes of a canonical message.              *)
(*                                                                         *)
(* The bus runs on one asyncio event loop.  An action of the model is the  *)
(* code a task runs between two suspension points: an uncontended          *)
(* asyncio.Lock, Pipeline.process and _complete_request never suspend, so  *)
(* they are part of the action that reaches them.  The suspension points   *)
(* are the gather of _route, the wait_for of request, the semaphore of a   *)
(* listener and the handler call itself.                                   *)
(***************************************************************************)
EXTENDS Integers, Sequences, FiniteSets, TLC

\* ------------------------------------------------------------------ bounds
MaxCallers == 2
MaxListeners == 2
MaxIds == 2
MaxTime == 61
TickStep == 60
MaxConcurrentPerListener == 1

\* --------------------------------------------------------- program constants
FailureThreshold == 5
RecoveryTimeout == 60
SuccessThreshold == 2

Slots == 1..MaxCallers
Lids == 1..MaxListeners
Ids == 1..MaxIds
NoId == 0
NoTime == 0
NoLid == 0
NoVer == "none"
NoRoot == ""

MsgRoots == {"task", "other"}
MsgVersions == {"v1"}
Cardinalities == {"one", "any", "all"}
ListenerVersions == {"*", "v1"}
CircuitKeys == (MsgRoots \cup {NoRoot}) \X ListenerVersions

\* Messages a caller can hand to request() or publish(): the root element's
\* name, its version and message-id attributes (absent: NoVer, NoId), and
\* whether a loaded schema accepts the document unchanged.  No listener is
\* ever bound to "other", so one document stands for that root.
\* The message-ids callers write on their documents themselves.
UserIds == {1}

InputDocs ==
    [root : {"task"}, version : MsgVersions, mid : UserIds \cup {NoId},
     irt : {NoId}, accepted : BOOLEAN]
    \cup [root : {"other"}, version : MsgVersions, mid : {NoId},
          irt : {NoId}, accepted : {FALSE}]

\* The bytes a handler returns as its reply: a document with no correlation
\* attributes of its own.
HandlerReplyDoc ==
    [root |-> "result", version |-> NoVer, mid |-> NoId, irt |-> NoId,
     accepted |-> FALSE]

\* ------------------------------------------------------------ CircuitBreaker
FreshBreaker ==
    [state |-> "CLOSED", failure_count |-> 0, success_count |-> 0,
     last_failure_time |-> NoTime]

\* is_open(): the value returned at time t.
is_open_strict(b, t) ==
    IF b.state = "OPEN"
    THEN ~(b.last_failure_time # NoTime /\ t - b.last_failure_time > RecoveryTimeout)
    ELSE FALSE

is_open(b, t) ==
    IF b.state = "OPEN"
    THEN ~(b.last_failure_time # NoTime /\ t - b.last_failure_time >= RecoveryTimeout)
    ELSE FALSE

\* is_open(): the breaker it leaves behind at time t.
is_open_effect(b, t) ==
    IF b.state = "OPEN" /\ b.last_failure_time # NoTime
       /\ t - b.last_failure_time >= RecoveryTimeout
    THEN [b EXCEPT !.state = "HALF_OPEN", !.success_count = 0]
    ELSE b

record_success_slow(b) ==
    IF b.state = "HALF_OPEN"
    THEN IF b.success_count + 1 > SuccessThreshold
         THEN [b EXCEPT !.success_count = b.success_count + 1,
                        !.state = "CLOSED", !.failure_count = 0]
         ELSE [b EXCEPT !.success_count = b.success_count + 1]
    ELSE IF b.state = "CLOSED"
         THEN [b EXCEPT !.failure_count =
                            IF b.failure_count - 1 > 0 THEN b.failure_count - 1 ELSE 0]
         ELSE b

record_success(b) ==
    IF b.state = "HALF_OPEN"
    THEN IF b.success_count + 1 >= SuccessThreshold
         THEN [b EXCEPT !.success_count = b.success_count + 1,
                        !.state = "CLOSED", !.failure_count = 0]
         ELSE [b EXCEPT !.success_count = b.success_count + 1]
    ELSE IF b.state = "CLOSED"
         THEN [b EXCEPT !.failure_count =
                            IF b.failure_count - 1 > 0 THEN b.failure_count - 1 ELSE 0]
         ELSE b

record_failure_late(b, t) ==
    LET c == [b EXCEPT !.failure_count = b.failure_count + 1,
                       !.last_failure_time = t]
    IN  IF c.failure_count > FailureThreshold
        THEN [c EXCEPT !.state = "OPEN"]
        ELSE IF c.state = "HALF_OPEN"
             THEN [c EXCEPT !.state = "OPEN"]
             ELSE c

record_failure(b, t) ==
    LET c == [b EXCEPT !.failure_count = b.failure_count + 1,
                       !.last_failure_time = t]
    IN  IF c.failure_count >= FailureThreshold
        THEN [c EXCEPT !.state = "OPEN"]
        ELSE IF c.state = "HALF_OPEN"
             THEN [c EXCEPT !.state = "OPEN"]
             ELSE c

\* A reset that closes the circuit and keeps the failure count.
reset_keeps_count(b) ==
    [b EXCEPT !.state = "CLOSED", !.success_count = 0,
              !.last_failure_time = NoTime]

\* CircuitBreaker.reset
reset(b) ==
    [b EXCEPT !.state = "CLOSED", !.failure_count = 0, !.success_count = 0,
              !.last_failure_time = NoTime]

\* ------------------------------------------------------------------ _Listener
\* One circuit per root, whatever the version.
CircuitKeyPerRoot(root, version) == <<root, "*">>

\* _Listener.get_circuit: the key of the circuit of a (root, version).
CircuitKey(root, version) ==
    <<root, IF version = NoVer THEN "*" ELSE version>>

\* _Listener.matches
matches(lst, root, version) ==
    /\ root \in lst.roots
    /\ (lst.version = "*" \/ lst.version = version)

\* Listener bindings a caller can register: one accepted root, an exact
\* version or the wildcard, and a priority.
ListenerTemplates ==
    {[roots |-> {"task"}, version |-> "*", priority |-> 0],
     [roots |-> {"task"}, version |-> "v1", priority |-> 1]}

\* A sort that is not stable: the new listener goes before its equals.
InsertBeforeEquals(lst, sorted) ==
    LET before == {i \in 1..Len(sorted) : sorted[i].priority > lst.priority}
        n == Cardinality(before)
    IN  SubSeq(sorted, 1, n) \o <<lst>> \o SubSeq(sorted, n + 1, Len(sorted))

\* list.sort(key=priority, reverse=True) is stable: a listener goes after
\* every listener of the same or a higher priority.
InsertByPriority(lst, sorted) ==
    LET before == {i \in 1..Len(sorted) : sorted[i].priority >= lst.priority}
        n == Cardinality(before)
    IN  SubSeq(sorted, 1, n) \o <<lst>> \o SubSeq(sorted, n + 1, Len(sorted))

RECURSIVE SortByPriorityDesc(_)
SortByPriorityDesc(seq) ==
    IF seq = <<>> THEN <<>>
    ELSE InsertByPriority(seq[Len(seq)],
                          SortByPriorityDesc(SubSeq(seq, 1, Len(seq) - 1)))

\* ------------------------------------------------------------------ Pipeline
NoInject == [mid |-> NoId, irt |-> NoId]

\* Pipeline._heal_and_validate: which of the three paths a document takes.
HealPath(doc, loaded) ==
    IF loaded /\ doc.accepted THEN "accepted"
    ELSE IF loaded THEN "schema"
    ELSE "aggressive"

\* Pipeline._ensure_core_fields, the message-id part: uuid is the value
\* uuid4() would return.
EnsureMessageId(mid, uuid) == IF mid = NoId THEN uuid ELSE mid

\* Pipeline._heal_and_validate: the root attributes of the healed tree.
\* An accepted tree is returned as it came; a healed tree is a new element
\* that gets the whitelisted attributes (schema healing) or none
\* (aggressive healing) and then the core fields.
HealAndValidate(doc, loaded, uuid) ==
    LET path == HealPath(doc, loaded)
    IN  IF path = "accepted"
        THEN [mid |-> doc.mid, irt |-> doc.irt, version |-> doc.version]
        ELSE IF path = "schema"
             THEN [mid |-> EnsureMessageId(doc.mid, uuid), irt |-> doc.irt,
                   version |-> doc.version]
             ELSE [mid |-> EnsureMessageId(NoId, uuid), irt |-> NoId,
                   version |-> NoVer]

\* Pipeline.process: the correlation attributes on the root of the canonical
\* bytes, and the metadata returned with them (root_tag and version are read
\* from the repaired input, before healing).
Process(doc, inject, loaded, uuid) ==
    LET healed == HealAndValidate(doc, loaded, uuid)
    IN  [mid |-> IF inject.mid # NoId THEN inject.mid ELSE healed.mid,
         irt |-> IF inject.irt # NoId THEN inject.irt ELSE healed.irt,
         root_tag |-> doc.root,
         version |-> doc.version]

\* extract_message_id(processed) or str(uuid.uuid4())
MessageIdOf(canonical, uuid) ==
    IF canonical.mid # NoId THEN canonical.mid ELSE uuid

\* ------------------------------------------------- Pipeline, the whole tree
\* Process above keeps of a message what the bus reads.  The operators below
\* follow Pipeline.process on the whole root element: its tag, the
\* attributes message-id, timestamp, in-reply-to and version (absent: NoId,
\* NoTime, NoVer), whether it has an attribute outside the healing whitelist,
\* whether it has text, and its child elements in order.  A child is its
\* name and, for a <huh> marker, the time in its "at" attribute.
Child(name) == [name |-> name, at |-> NoTime]

\* Root elements handed to process(): well-formed input, which the repair
\* step parses as it is.
PipeKids == {<<>>, <<Child("item")>>, <<Child("junk"), Child("item")>>}

\* Element tags as lxml holds them (Clark notation), piece by piece: the
\* local name alone, or "{", the namespace URI, "}" and the local name.
CadNs == "https://swarm/cad/v4"

Tags == {<<"task">>, <<"{", CadNs, "}", "task">>}

PipeInputs ==
    [tag : Tags, mid : UserIds \cup {NoId}, ts : {NoTime, 1}, irt : {NoId},
     version : MsgVersions \cup {NoVer}, extra : BOOLEAN, text : BOOLEAN,
     kids : PipeKids]

\* The tag with its namespace left on.
QualifiedName(tag) == tag

\* root_elem.tag.rsplit("}", 1)[-1] if "}" in root_elem.tag else root_elem.tag
LocalName(tag) ==
    LET braces == {i \in 1..Len(tag) : tag[i] = "}"}
    IN  IF braces = {} THEN tag
        ELSE SubSeq(tag, (CHOOSE i \in braces : \A j \in braces : j <= i) + 1,
                    Len(tag))

\* Bytes handed to process(): a document whose root is closed, a truncated
\* one whose root is left open, or bytes that hold no element at all (the
\* root of a "garbage" document stands for nothing).
Garbage ==
    [root |-> [tag |-> <<"task">>, mid |-> NoId, ts |-> NoTime, irt |-> NoId,
               version |-> NoVer, extra |-> FALSE, text |-> FALSE, kids |-> <<>>],
     end |-> "garbage"]

RawInputs == [root : PipeInputs, end : {"closed", "unclosed"}] \cup {Garbage}

\* ET.tostring: the bytes of a tree are a closed document.
tostring(elem) == [root |-> elem, end |-> "closed"]

\* ET.fromstring without recovery parses closed documents only.
Parses(doc) == doc.end = "closed"

fromstring(doc) == doc.root

\* Pipeline._repair_with_lxml: the recovering parser closes what was left
\* open and the tree is serialized again; when it finds no element the
\* serialization fails and the bytes are returned as they came.
repair_with_lxml(raw) ==
    IF raw.end = "garbage" THEN raw ELSE tostring(raw.root)

\* The element names the loaded schema declares.
SchemaElements == {"item"}

\* Pipeline._add_huh: a <huh> child with the current time in "at".
add_huh(kids, clock) == Append(kids, [name |-> "huh", at |-> clock])

\* Pipeline._apply_schema_healing, the children: a child the schema knows
\* (or a huh, message-id or timestamp element) is moved over, any other is
\* replaced by a <huh> warning.
RECURSIVE HealKids(_, _, _)
HealKids(src, dst, clock) ==
    IF src = <<>> THEN dst
    ELSE HealKids(Tail(src),
                  IF Head(src).name \in SchemaElements \cup {"huh", "message-id", "timestamp"}
                  THEN Append(dst, Head(src))
                  ELSE add_huh(dst, clock),
                  clock)

\* Pipeline._apply_schema_healing: children as above, whitelisted attributes
\* copied, the others and the text left behind.
apply_schema_healing(src, dst, clock) ==
    [dst EXCEPT !.kids = HealKids(src.kids, dst.kids, clock),
                !.mid = src.mid, !.ts = src.ts, !.irt = src.irt,
                !.version = src.version]

\* Pipeline._aggressive_healing: the children are moved over, nothing else.
aggressive_healing(src, dst) ==
    [dst EXCEPT !.kids = dst.kids \o src.kids]

\* Pipeline._ensure_core_fields
ensure_core_fields(elem, uuid, clock) ==
    [elem EXCEPT !.mid = IF elem.mid = NoId THEN uuid ELSE elem.mid,
                 !.ts = IF elem.ts = NoTime THEN clock ELSE elem.ts]

\* Pipeline._heal_and_validate: a tree a schema validates is returned as it
\* is; otherwise a new element of the same tag gets the repair marker, the
\* healed content and the core fields.
heal_and_validate(elem, loaded, accepts, uuid, clock) ==
    IF loaded /\ accepts THEN elem
    ELSE LET healed == [tag |-> elem.tag, mid |-> NoId, ts |-> NoTime,
                        irt |-> NoId, version |-> NoVer, extra |-> FALSE,
                        text |-> FALSE, kids |-> add_huh(<<>>, clock)]
         IN  ensure_core_fields(
                 IF loaded THEN apply_schema_healing(elem, healed, clock)
                 ELSE aggressive_healing(elem, healed),
                 uuid, clock)

\* Pipeline._force_canonical_namespaces on the root: the copy new_elem takes
\* the children (extend moves them), and for a root, which has no parent,
\* the copy replaces nothing: the root that is serialized keeps its
\* attributes and text and has no children left.
force_canonical_namespaces(elem) == [elem EXCEPT !.kids = <<>>]

\* Pipeline._canonicalize: namespace rewrite, attribute sort, C14N.
canonicalize(elem) == force_canonical_namespaces(elem)

\* Pipeline.process: repair, parse, then canonical bytes, root_tag and
\* version; both are read from the parsed root before healing.  ok is FALSE
\* when ET.fromstring raised on the repaired bytes (the other fields then
\* stand for nothing).
process(raw, inject, loaded, accepts, uuid, clock) ==
    LET repaired == repair_with_lxml(raw)
        root_elem == fromstring(repaired)
        healed == heal_and_validate(root_elem, loaded, accepts, uuid, clock)
        injected == [healed EXCEPT
                        !.mid = IF inject.mid # NoId THEN inject.mid ELSE healed.mid,
                        !.irt = IF inject.irt # NoId THEN inject.irt ELSE healed.irt]
    IN  IF ~Parses(repaired)
        THEN [ok |-> FALSE, canonical |-> raw, root_tag |-> <<>>,
              version |-> NoVer]
        ELSE [ok |-> TRUE, canonical |-> tostring(canonicalize(injected)),
              root_tag |-> LocalName(root_elem.tag),
              version |-> root_elem.version]

\* ----------------------------------------------------------------- bus state
VARIABLES
    listeners,      \* MessageBus._listeners
    circ,           \* _Listener.circuits, per listener and (root, version)
    pending,        \* MessageBus._pending: message-id -> _PendingRequest
    fut,            \* the completion future of each caller's request
    call,           \* each caller's position in request/publish/reply
    deliv,          \* the _deliver_to_listener tasks of each caller's _route
    now,            \* time.time()
    schemasLoaded,  \* Pipeline.schemas is not empty
    shape,          \* how many callers, requesters and listeners this run has
    health,         \* MessageBus._health_task and the pings it has published
    pipe,           \* a Pipeline on its own: its input and what process returned
    brk             \* a CircuitBreaker on its own and the last call made on it

vars == <<listeners, circ, pending, fut, call, deliv, now, schemasLoaded, shape,
          health, pipe, brk>>

NoEntry ==
    [owner |-> 0, cardinality |-> "none", required_replies |-> 0,
     received_replies |-> 0, replies |-> <<>>]

NoReply == [kind |-> "none", irt |-> NoId, plain |-> FALSE, lst |-> NoLid]

IdleFuture == [state |-> "none", value |-> <<>>, error |-> "none", fires |-> 0]

IdleCall ==
    [pc |-> "idle", op |-> "none", id |-> NoId, canonMid |-> NoId,
     root |-> NoRoot, version |-> NoVer, card |-> "none",
     matchN |-> 0, viableN |-> 0, outcome |-> "none", routed |-> "none"]

\* A finished call: for a request its message-id, for reply() the id it
\* answered (publish returns nothing: NoId), what the caller got and, for a
\* request, whether any listener matched when it was routed.
RouteClass(matchN, viableN) ==
    IF matchN = 0 THEN "nomatch" ELSE "matched"

Finished(op, id, outcome, matchN, viableN) ==
    [IdleCall EXCEPT !.pc = "done", !.op = op, !.id = id, !.outcome = outcome,
                     !.routed = IF op = "request" THEN RouteClass(matchN, viableN)
                                ELSE "none"]

\* The stand-alone Pipeline and CircuitBreaker are not used by a bus run.
IdlePipe == [input |-> <<>>, accepts |-> FALSE, runs |-> <<>>, again |-> <<>>,
             uuids |-> 0]

\* cb is the breaker, op and ret the last call made on it and what it
\* returned, calls the parity of the number of calls, streak the number of
\* record_failure calls since construction or reset while no record_success
\* came in between (NoStreak once one has).
NoStreak == 0 - 1

IdleBreaker == [cb |-> FreshBreaker, op |-> "none", ret |-> "none",
                calls |-> 0, streak |-> 0]

InitBus ==
    /\ listeners = <<>>
    /\ circ = [l \in Lids |-> [k \in CircuitKeys |-> FreshBreaker]]
    /\ pending = [i \in Ids |-> NoEntry]
    /\ fut = [s \in Slots |-> IdleFuture]
    /\ call = [s \in Slots |-> IdleCall]
    /\ deliv = [s \in Slots |-> [l \in Lids |-> "none"]]
    /\ now = 1
    /\ health = [state |-> "running", pings |-> 0]

\* Concurrent callers on one listener, within one recovery window.
Init ==
    /\ InitBus
    /\ pipe = IdlePipe
    /\ brk = IdleBreaker
    /\ schemasLoaded = TRUE
    /\ shape = [callers |-> MaxCallers, listeners |-> MaxListeners - 1,
                requesters |-> 1]

\* One caller and several listeners, within one recovery window.
InitWide ==
    /\ InitBus
    /\ pipe = IdlePipe
    /\ brk = IdleBreaker
    /\ schemasLoaded = TRUE
    /\ shape = [callers |-> MaxCallers - 1, listeners |-> MaxListeners,
                requesters |-> 1]

\* One caller and one listener, over more than one recovery window.
InitClock ==
    /\ InitBus
    /\ pipe = IdlePipe
    /\ brk = IdleBreaker
    /\ schemasLoaded = TRUE
    /\ shape = [callers |-> MaxCallers - 1, listeners |-> MaxListeners - 1,
                requesters |-> 1]

\* MessageBus.listener: the decorator appends the binding and sorts the list.
\* Priorities order listeners among themselves: a run registers as many
\* distinct priorities as it has listeners, a lone listener the default 0.
Register(roots, version, priority) ==
    /\ Len(listeners) < shape.listeners
    /\ priority < shape.listeners
    /\ health.state = "running"
    /\ listeners' = SortByPriorityDesc(
           Append(listeners, [lid |-> Len(listeners) + 1, roots |-> roots,
                              version |-> version, priority |-> priority]))
    /\ UNCHANGED <<circ, pending, fut, call, deliv, now, schemasLoaded, shape, health, pipe, brk>>

\* The clock advances.
Tick ==
    /\ now + TickStep <= MaxTime
    /\ now' = now + TickStep
    /\ UNCHANGED <<listeners, circ, pending, fut, call, deliv, schemasLoaded, shape, health, pipe, brk>>

\* ------------------------------------------------------- completion logic
NewEntry(s, cardinality) ==
    [owner |-> s, cardinality |-> cardinality, required_replies |-> 0,
     received_replies |-> 0, replies |-> <<>>]

NewFuture == [state |-> "pending", value |-> <<>>, error |-> "none", fires |-> 0]

done(f) == f.state # "pending"

\* Future.set_result / set_exception / cancel: each resolves the future once
\* more (asyncio raises InvalidStateError on a second resolution).
set_result(f, v) == [f EXCEPT !.state = "result", !.value = v, !.fires = f.fires + 1]
set_exception(f, e) == [f EXCEPT !.state = "exception", !.error = e, !.fires = f.fires + 1]
cancel(f) == [f EXCEPT !.state = "cancelled", !.fires = f.fires + 1]

\* What request() returns or raises once its future is resolved.
OutcomeOf(f) ==
    IF f.state = "result" THEN "reply"
    ELSE IF f.state = "exception" THEN f.error
    ELSE "cancelled"

\* _complete_request discards a reply for an id with no entry, or whose
\* future is already resolved.
DiscardsOnlyMissing(pend, futs, request_id) ==
    pend[request_id].owner = 0

Discards(pend, futs, request_id) ==
    \/ pend[request_id].owner = 0
    \/ done(futs[pend[request_id].owner])

\* The NACK path: the future fails with ListenerNotFoundError and the entry
\* is removed.
NackKeepsEntry(pend, futs, request_id) ==
    [pending |-> pend,
     fut |-> [futs EXCEPT ![pend[request_id].owner] = set_exception(@, "nolistener")]]

Nack(pend, futs, request_id) ==
    [pending |-> [pend EXCEPT ![request_id] = NoEntry],
     fut |-> [futs EXCEPT ![pend[request_id].owner] = set_exception(@, "nolistener")]]

\* Cardinality "all": the reply is appended and counted; the future gets the
\* list once received_replies reaches required_replies.
Collect(pend, futs, request_id, reply) ==
    LET req == pend[request_id]
        got == [req EXCEPT !.replies = Append(req.replies, reply),
                           !.received_replies = req.received_replies + 1]
    IN  IF got.received_replies >= got.required_replies
        THEN [pending |-> [pend EXCEPT ![request_id] = NoEntry],
              fut |-> [futs EXCEPT ![req.owner] = set_result(@, got.replies)]]
        ELSE [pending |-> [pend EXCEPT ![request_id] = got],
              fut |-> futs]

\* A first reply that resolves the future and leaves the entry in the table.
FirstWinsKeepsEntry(pend, futs, request_id, reply) ==
    [pending |-> pend,
     fut |-> [futs EXCEPT ![pend[request_id].owner] = set_result(@, <<reply>>)]]

\* Cardinality "one" or "any": the first reply wins.
FirstWins(pend, futs, request_id, reply) ==
    [pending |-> [pend EXCEPT ![request_id] = NoEntry],
     fut |-> [futs EXCEPT ![pend[request_id].owner] = set_result(@, <<reply>>)]]

\* MessageBus._complete_request: the pending table and the futures it leaves.
CompleteRequest(pend, futs, request_id, reply) ==
    IF Discards(pend, futs, request_id)
    THEN [pending |-> pend, fut |-> futs]
    ELSE IF reply.kind = "none"
    THEN Nack(pend, futs, request_id)
    ELSE IF pend[request_id].cardinality = "all"
    THEN Collect(pend, futs, request_id, reply)
    ELSE FirstWins(pend, futs, request_id, reply)

\* ------------------------------------------------------------------ _route
Matching(root, version) ==
    SelectSeq(listeners, LAMBDA lst : matches(lst, root, version))

LidsOf(seq) == {seq[i].lid : i \in 1..Len(seq)}

\* The viable listeners: is_open() is probed on the circuit of each matching
\* listener, in registry order.
Viable(matching, root, version) ==
    SelectSeq(matching,
              LAMBDA lst : ~is_open(circ[lst.lid][CircuitKey(root, version)], now))

\* The circuits after those probes.
ProbedCircuits(matching, root, version) ==
    [l \in Lids |->
        IF l \in LidsOf(matching)
        THEN [circ[l] EXCEPT ![CircuitKey(root, version)] = is_open_effect(@, now)]
        ELSE circ[l]]

\* The listeners a delivery task is created for.
TargetsLast(viable, cardinality) ==
    IF cardinality = "one"
    THEN IF viable = <<>> THEN {} ELSE {viable[Len(viable)].lid}
    ELSE LidsOf(viable)

Targets(viable, cardinality) ==
    IF cardinality = "one"
    THEN IF viable = <<>> THEN {} ELSE {viable[1].lid}
    ELSE LidsOf(viable)

\* required_replies of a routed request.
RequiredRepliesOne(cardinality, expected) == 1

RequiredReplies(cardinality, expected) ==
    IF cardinality = "all" THEN expected ELSE 1

\* MessageBus._route up to its gather: what it leaves of the circuits, the
\* pending table and the futures, and the deliveries it creates.
Route(root, version, cardinality, flow, original_id, pend, futs) ==
    LET matching == Matching(root, version)
        viable == Viable(matching, root, version)
        expected == Len(viable)
    IN  IF matching = <<>> /\ flow = "request-response" /\ original_id # NoId
        THEN LET c == CompleteRequest(pend, futs, original_id, NoReply)
             IN  [circ |-> circ, pending |-> c.pending, fut |-> c.fut,
                  targets |-> {}, matchN |-> 0, viableN |-> 0]
        ELSE [circ |-> ProbedCircuits(matching, root, version),
              pending |->
                  IF /\ flow = "request-response" /\ original_id # NoId
                     /\ expected > 0 /\ pend[original_id].owner # 0
                  THEN [pend EXCEPT ![original_id].required_replies =
                            RequiredReplies(cardinality, expected)]
                  ELSE pend,
              fut |-> futs,
              targets |-> Targets(viable, cardinality),
              matchN |-> Len(matching), viableN |-> expected]

\* ------------------------------------------------------------- identifiers
\* The identifiers some live call or pending entry holds; uuid4() returns
\* none of them.
IsActive(c) == c.pc \in {"routing", "waiting", "timedout"}
Active(s) == IsActive(call[s])

UsedIds ==
    {call[s].id : s \in {t \in Slots : Active(t)}}
        \cup {i \in Ids : pending[i].owner # 0}

\* A caller starts its next call once the last one has returned; the
\* finished call stays readable in its slot until then.
\* close() shuts the bus down: callers start no new call once it has run,
\* the calls and deliveries in flight go on.
CanStart(s) ==
    /\ s <= shape.callers
    /\ ~Active(s)
    /\ health.state = "running"

\* Callers are interchangeable: the first ones (one, unless the run has
\* more requesters) are taken as those that issue the requests, the last
\* one as the one that publishes and replies.
Requesters == 1..shape.requesters
Publishers == {shape.callers}

HasFreshId == Ids \ UsedIds # {}
FreshId ==
    IF HasFreshId
    THEN CHOOSE i \in Ids \ UsedIds : \A j \in Ids \ UsedIds : i <= j
    ELSE NoId

\* Bytes in which the recovering parser finds no element: process() raises
\* on them (ET.fromstring on the bytes as they came).
UnrepairableDoc ==
    [root |-> NoRoot, version |-> NoVer, mid |-> NoId, irt |-> NoId,
     accepted |-> FALSE]

\* A pipeline that returns for every input.
RepairsAnything(doc) == TRUE

\* Whether process() returns for the input.
Repairable(doc) == doc.root # NoRoot

\* process() or the caller draws a uuid4() unless the input keeps its own
\* message-id through healing.
NeedsUuid(doc) == Process(doc, NoInject, schemasLoaded, NoId).mid = NoId

\* --------------------------------------------------------------- request()
\* MessageBus.request up to its first suspension: process (which raises on
\* unrepairable bytes, ending the call), register the pending entry, route.  With no delivery to wait for it goes on to
\* wait_for, which raises at once when the NACK has failed the future.
Request(s, doc, cardinality) ==
    /\ CanStart(s)
    /\ s \in Requesters
    /\ NeedsUuid(doc) => HasFreshId
    /\ doc.accepted => schemasLoaded
    /\ IF ~Repairable(doc)
       THEN /\ call' = [call EXCEPT ![s] =
                   Finished("request", NoId, "xmlsyntaxerror", 0, 0)]
            /\ UNCHANGED <<circ, pending, fut, deliv>>
       ELSE
       LET canonical == Process(doc, NoInject, schemasLoaded, FreshId)
           msg_id == MessageIdOf(canonical, FreshId)
           r == Route(canonical.root_tag, canonical.version, cardinality,
                      "request-response", msg_id,
                      [pending EXCEPT ![msg_id] = NewEntry(s, cardinality)],
                      [fut EXCEPT ![s] = NewFuture])
           nacked == done(r.fut[s])
       IN  /\ circ' = r.circ
           /\ pending' = r.pending
           /\ fut' = IF nacked THEN [r.fut EXCEPT ![s] = IdleFuture] ELSE r.fut
           /\ deliv' = [deliv EXCEPT ![s] =
                            [l \in Lids |-> IF l \in r.targets THEN "queued" ELSE "none"]]
           /\ call' = [call EXCEPT ![s] =
                  IF nacked
                  THEN Finished("request", msg_id, OutcomeOf(r.fut[s]), r.matchN, r.viableN)
                  ELSE [pc |-> IF r.targets # {} THEN "routing" ELSE "waiting",
                        op |-> "request", id |-> msg_id, canonMid |-> canonical.mid,
                        root |-> canonical.root_tag, version |-> canonical.version,
                        card |-> cardinality,
                        matchN |-> r.matchN, viableN |-> r.viableN,
                        outcome |-> "none", routed |-> "none"]]
    /\ UNCHANGED <<listeners, now, schemasLoaded, shape, health, pipe, brk>>

\* --------------------------------------------------------------- publish()
\* MessageBus.publish up to the gather of _route; with no delivery to wait
\* for it returns at once.  (Cardinality "all" routes a publish as "any"
\* does: no pending entry counts its replies.)
Publish(s, doc, cardinality) ==
    /\ CanStart(s)
    /\ s \in Publishers
    /\ NeedsUuid(doc) => HasFreshId
    /\ doc.accepted => schemasLoaded
    /\ IF ~Repairable(doc)
       THEN /\ call' = [call EXCEPT ![s] =
                   Finished("publish", NoId, "xmlsyntaxerror", 0, 0)]
            /\ UNCHANGED <<circ, pending, fut, deliv>>
       ELSE
       LET canonical == Process(doc, NoInject, schemasLoaded, FreshId)
           msg_id == MessageIdOf(canonical, FreshId)
           r == Route(canonical.root_tag, canonical.version, cardinality,
                      "fire-and-forget", msg_id, pending, fut)
       IN  /\ circ' = r.circ
           /\ pending' = r.pending
           /\ fut' = r.fut
           /\ deliv' = [deliv EXCEPT ![s] =
                            [l \in Lids |-> IF l \in r.targets THEN "queued" ELSE "none"]]
           /\ call' = [call EXCEPT ![s] =
                  IF r.targets = {}
                  THEN Finished("publish", NoId, "ok", r.matchN, r.viableN)
                  ELSE [pc |-> "routing",
                        op |-> "publish", id |-> msg_id, canonMid |-> canonical.mid,
                        root |-> canonical.root_tag, version |-> canonical.version,
                        card |-> cardinality,
                        matchN |-> r.matchN, viableN |-> r.viableN,
                        outcome |-> "none", routed |-> "none"]]
    /\ UNCHANGED <<listeners, now, schemasLoaded, shape, health, pipe, brk>>

\* ----------------------------------------------------------------- reply()
\* response.in_reply_to or original_id
ResolveInReplyTo(response_irt, original_id) ==
    IF response_irt # NoId THEN response_irt ELSE original_id

\* A reply() that touches the pending table before it raises.
ReplyRaisesLate(s, response_irt, original_id) ==
    /\ CanStart(s)
    /\ s \in Publishers
    /\ HasFreshId
    /\ LET in_reply_to == ResolveInReplyTo(response_irt, original_id)
           msg_id == FreshId
       IN  IF in_reply_to = NoId
           THEN /\ call' = [call EXCEPT ![s] = Finished("reply", NoId, "valueerror", 0, 0)]
                /\ pending' = [i \in Ids |-> NoEntry]
                /\ UNCHANGED <<circ, fut, deliv>>
           ELSE LET processed == Process(HandlerReplyDoc,
                                         [mid |-> msg_id, irt |-> in_reply_to],
                                         schemasLoaded, msg_id)
                    r == Route(NoRoot, NoVer, "one", "fire-and-forget",
                               in_reply_to, pending, fut)
                IN  /\ circ' = r.circ
                    /\ pending' = r.pending
                    /\ fut' = r.fut
                    /\ deliv' = [deliv EXCEPT ![s] =
                           [l \in Lids |-> IF l \in r.targets THEN "queued" ELSE "none"]]
                    /\ call' = [call EXCEPT ![s] =
                           IF r.targets = {}
                           THEN Finished("reply", in_reply_to, "ok", r.matchN, r.viableN)
                           ELSE [pc |-> "routing",
                                 op |-> "reply", id |-> in_reply_to,
                                 canonMid |-> processed.mid,
                                 root |-> NoRoot, version |-> NoVer, card |-> "one",
                                 matchN |-> r.matchN, viableN |-> r.viableN,
                                 outcome |-> "none", routed |-> "none"]]
    /\ UNCHANGED <<listeners, now, schemasLoaded, shape, health, pipe, brk>>

\* MessageBus.reply: response_irt is the in_reply_to of a structured reply
\* (NoId for raw bytes or text); the reply's own message-id is a fresh
\* uuid4().  Without
\* a target it raises before anything else; otherwise the processed reply is
\* routed with root None, version None, cardinality "one", fire-and-forget.
Reply(s, response_irt, original_id) ==
    /\ CanStart(s)
    /\ s \in Publishers
    /\ HasFreshId
    /\ LET in_reply_to == ResolveInReplyTo(response_irt, original_id)
           msg_id == FreshId
       IN  IF in_reply_to = NoId
           THEN /\ call' = [call EXCEPT ![s] = Finished("reply", NoId, "valueerror", 0, 0)]
                /\ UNCHANGED <<circ, pending, fut, deliv>>
           ELSE LET processed == Process(HandlerReplyDoc,
                                         [mid |-> msg_id, irt |-> in_reply_to],
                                         schemasLoaded, msg_id)
                    r == Route(NoRoot, NoVer, "one", "fire-and-forget",
                               in_reply_to, pending, fut)
                IN  /\ circ' = r.circ
                    /\ pending' = r.pending
                    /\ fut' = r.fut
                    /\ deliv' = [deliv EXCEPT ![s] =
                           [l \in Lids |-> IF l \in r.targets THEN "queued" ELSE "none"]]
                    /\ call' = [call EXCEPT ![s] =
                           IF r.targets = {}
                           THEN Finished("reply", in_reply_to, "ok", r.matchN, r.viableN)
                           ELSE [pc |-> "routing",
                                 op |-> "reply", id |-> in_reply_to,
                                 canonMid |-> processed.mid,
                                 root |-> NoRoot, version |-> NoVer, card |-> "one",
                                 matchN |-> r.matchN, viableN |-> r.viableN,
                                 outcome |-> "none", routed |-> "none"]]
    /\ UNCHANGED <<listeners, now, schemasLoaded, shape, health, pipe, brk>>

\* ------------------------------------------------------ _deliver_to_listener
Running(l) == {s \in Slots : deliv[s][l] = "running"}

\* A delivery that calls the handler without a permit.
DeliverStartUngated(s, l) ==
    /\ deliv[s][l] = "queued"
    /\ deliv' = [deliv EXCEPT ![s][l] = "running"]
    /\ UNCHANGED <<listeners, circ, pending, fut, call, now, schemasLoaded, shape, health, pipe, brk>>

\* A delivery acquires a permit of the listener's semaphore and calls the
\* handler under wait_for.
DeliverStart(s, l) ==
    /\ deliv[s][l] = "queued"
    /\ Cardinality(Running(l)) < MaxConcurrentPerListener
    /\ deliv' = [deliv EXCEPT ![s][l] = "running"]
    /\ UNCHANGED <<listeners, circ, pending, fut, call, now, schemasLoaded, shape, health, pipe, brk>>

\* The handler raises, or its wait_for deadline passes: the failure is
\* recorded and the delivery ends, releasing the permit.
DeliverFailEscapes(s, l) ==
    /\ deliv[s][l] = "running"
    /\ deliv' = [deliv EXCEPT ![s] = [k \in Lids |-> "none"]]
    /\ call' = [call EXCEPT ![s] = Finished(call[s].op, call[s].id, "error", 0, 0)]
    /\ UNCHANGED <<listeners, circ, pending, fut, now, schemasLoaded, shape, health, pipe, brk>>

DeliverFail(s, l) ==
    /\ deliv[s][l] = "running"
    /\ circ' = [circ EXCEPT ![l][CircuitKey(call[s].root, call[s].version)] =
                    record_failure(@, now)]
    /\ deliv' = [deliv EXCEPT ![s][l] = "failed"]
    /\ UNCHANGED <<listeners, pending, fut, call, now, schemasLoaded, shape, health, pipe, brk>>

\* A handler returning None that ends the delivery with no outcome recorded.
DeliverNoneUnrecorded(s, l) ==
    /\ deliv[s][l] = "running"
    /\ deliv' = [deliv EXCEPT ![s][l] = "returned"]
    /\ UNCHANGED <<listeners, circ, pending, fut, call, now, schemasLoaded, shape, health, pipe, brk>>

\* The handler returns None: the success is recorded, nothing else.
DeliverNone(s, l) ==
    /\ deliv[s][l] = "running"
    /\ circ' = [circ EXCEPT ![l][CircuitKey(call[s].root, call[s].version)] =
                    record_success(@)]
    /\ deliv' = [deliv EXCEPT ![s][l] = "returned"]
    /\ UNCHANGED <<listeners, pending, fut, call, now, schemasLoaded, shape, health, pipe, brk>>

\* The reply handed to _complete_request: the handler's result run through
\* the pipeline with in-reply-to injected.
BuildReply(l, in_reply_to, plain, uuid) ==
    LET processed == Process(HandlerReplyDoc, [mid |-> NoId, irt |-> in_reply_to],
                             schemasLoaded, uuid)
    IN  [kind |-> "handler", irt |-> processed.irt, plain |-> plain, lst |-> l]

\* The handler returns a reply: plain bytes (response_irt = NoId, plain), or
\* a Response whose in_reply_to is response_irt (NoId when it has none).
\* How a delivery that produced a reply ended: "replied" when
\* _complete_request took the reply, "late" when it dropped it because the
\* future of the entry was already resolved, "orphan" when it dropped it for
\* want of an entry of the message's own id, "stray" when it dropped it for
\* want of an entry of another id.
ReplyStatuses == {"replied", "late", "orphan", "stray"}

ReplyStatus(pend, futs, in_reply_to, own_id) ==
    IF ~Discards(pend, futs, in_reply_to) THEN "replied"
    ELSE IF pend[in_reply_to].owner # 0 THEN "late"
    ELSE IF in_reply_to = own_id THEN "orphan"
    ELSE "stray"

DeliverReply(s, l, plain, response_irt) ==
    /\ deliv[s][l] = "running"
    /\ plain => response_irt = NoId
    /\ LET in_reply_to == IF plain THEN call[s].id
                          ELSE ResolveInReplyTo(response_irt, call[s].id)
           c == CompleteRequest(pending, fut, in_reply_to,
                                BuildReply(l, in_reply_to, plain, in_reply_to))
       IN  /\ pending' = c.pending
           /\ fut' = c.fut
           /\ deliv' = [deliv EXCEPT ![s][l] =
                            ReplyStatus(pending, fut, in_reply_to, call[s].id)]
    /\ circ' = [circ EXCEPT ![l][CircuitKey(call[s].root, call[s].version)] =
                    record_success(@)]
    /\ UNCHANGED <<listeners, call, now, schemasLoaded, shape, health, pipe, brk>>

\* The handler returns bytes the pipeline cannot repair: the success is
\* already recorded when pipeline.process raises, outside the try block; the
\* exception ends the delivery task, the permit is released and
\* _complete_request is never reached.
DeliverUnrepairable(s, l) ==
    /\ deliv[s][l] = "running"
    /\ ~Repairable(UnrepairableDoc)
    /\ circ' = [circ EXCEPT ![l][CircuitKey(call[s].root, call[s].version)] =
                    record_success(@)]
    /\ deliv' = [deliv EXCEPT ![s][l] = "crashed"]
    /\ UNCHANGED <<listeners, pending, fut, call, now, schemasLoaded, shape, health, pipe, brk>>

\* The gather of _route returns: request() goes on to wait_for, publish()
\* and reply() return.  gather(return_exceptions=True) takes a task that
\* ended with an exception like any other.
Settle(s) ==
    /\ call[s].pc = "routing"
    /\ \A l \in Lids : deliv[s][l] \in {"none", "returned", "failed", "crashed"}
                                          \cup ReplyStatuses
    /\ call' = [call EXCEPT ![s] =
           IF call[s].op = "request"
           THEN [@ EXCEPT !.pc = "waiting"]
           ELSE Finished(call[s].op,
                         IF call[s].op = "reply" THEN call[s].id ELSE NoId,
                         "ok", call[s].matchN, call[s].viableN)]
    /\ deliv' = [deliv EXCEPT ![s] = [l \in Lids |-> "none"]]
    /\ UNCHANGED <<listeners, circ, pending, fut, now, schemasLoaded, shape, health, pipe, brk>>

\* wait_for finds the future resolved: request() returns its result or
\* raises its exception.
RequestReturn(s) ==
    /\ call[s].pc = "waiting"
    /\ done(fut[s])
    /\ call' = [call EXCEPT ![s] =
           Finished("request", call[s].id, OutcomeOf(fut[s]), call[s].matchN,
                    call[s].viableN)]
    /\ fut' = [fut EXCEPT ![s] = IdleFuture]
    /\ UNCHANGED <<listeners, circ, pending, deliv, now, schemasLoaded, shape, health, pipe, brk>>

\* A request that awaits its future with no deadline: no timeout ever
\* passes.
RequestAwaitsBare(s) ==
    /\ call[s].pc = "waiting"
    /\ ~done(fut[s])
    /\ FALSE
    /\ UNCHANGED vars

\* The timeout of wait_for passes first: wait_for cancels the future.
RequestTimeout(s) ==
    /\ call[s].pc = "waiting"
    /\ ~done(fut[s])
    /\ fut' = [fut EXCEPT ![s] = cancel(@)]
    /\ call' = [call EXCEPT ![s].pc = "timedout"]
    /\ UNCHANGED <<listeners, circ, pending, deliv, now, schemasLoaded, shape, health, pipe, brk>>

\* self._pending.pop(msg_id, None)
PopPendingLeak(pend, msg_id) == pend

PopPending(pend, msg_id) == [pend EXCEPT ![msg_id] = NoEntry]

\* The TimeoutError reaches request(): it removes the entry of its
\* message-id and raises SwarmTimeoutError.
RequestTimeoutCleanup(s) ==
    /\ call[s].pc = "timedout"
    /\ pending' = PopPending(pending, call[s].id)
    /\ call' = [call EXCEPT ![s] =
           Finished("request", call[s].id, "timeout", call[s].matchN, call[s].viableN)]
    /\ fut' = [fut EXCEPT ![s] = IdleFuture]
    /\ UNCHANGED <<listeners, circ, deliv, now, schemasLoaded, shape, health, pipe, brk>>

\* MessageBus.close: the health task is cancelled and awaited, then every
\* unresolved future of the pending table is cancelled and the table is
\* cleared.  While close() awaits the cancelled health task the other tasks
\* take the same steps as before it was called, and the cancelled task
\* publishes nothing, so close() is one step.  It is followed when it has a
\* request to cancel.
CloseKeepsFutures ==
    /\ health.state = "running"
    /\ \E i \in Ids : pending[i].owner # 0
    /\ pending' = [i \in Ids |-> NoEntry]
    /\ health' = [health EXCEPT !.state = "done"]
    /\ UNCHANGED <<listeners, circ, fut, call, deliv, now, schemasLoaded, shape, pipe, brk>>

Close ==
    /\ health.state = "running"
    /\ \E i \in Ids : pending[i].owner # 0
    /\ fut' = [s \in Slots |->
                  IF (\E i \in Ids : pending[i].owner = s) /\ ~done(fut[s])
                  THEN cancel(fut[s]) ELSE fut[s]]
    /\ pending' = [i \in Ids |-> NoEntry]
    /\ health' = [health EXCEPT !.state = "done"]
    /\ UNCHANGED <<listeners, circ, call, deliv, now, schemasLoaded, shape, pipe, brk>>

\* ------------------------------------------------------------ health task
MaxPings == 2

\* MessageBus._health_checker, one round: after its sleep the task publishes
\* a <ping> with cardinality "any".  No listener is bound to that root, so
\* _route creates no delivery and publish returns without suspending.
HealthPing ==
    /\ health.state = "running"
    /\ health.pings < MaxPings
    /\ HasFreshId
    /\ LET canonical == Process([root |-> "ping", version |-> NoVer, mid |-> NoId,
                                 irt |-> NoId, accepted |-> FALSE],
                                NoInject, schemasLoaded, FreshId)
           r == Route(canonical.root_tag, canonical.version, "any",
                      "fire-and-forget", MessageIdOf(canonical, FreshId),
                      pending, fut)
       IN  /\ r.targets = {}
           /\ circ' = r.circ
           /\ pending' = r.pending
           /\ fut' = r.fut
    /\ health' = [health EXCEPT !.pings = @ + 1]
    /\ UNCHANGED <<listeners, call, deliv, now, schemasLoaded, shape, pipe, brk>>

\* ------------------------------------------------------ Pipeline on its own
MaxRuns == 2

\* str(uuid.uuid4()): a value no caller wrote and no earlier call returned.
Uuid4(n) == MaxIds + n + 1

\* A Pipeline with or without a schema, and an input; the schema may
\* validate the input as it is.
InitPipe ==
    /\ InitBus
    /\ brk = IdleBreaker
    /\ shape = [callers |-> 0, listeners |-> 0,
                requesters |-> 1]
    /\ schemasLoaded \in BOOLEAN
    /\ \E x \in RawInputs, a \in BOOLEAN :
          /\ a => schemasLoaded
          /\ pipe = [input |-> <<x>>, accepts |-> a, runs |-> <<>>,
                     again |-> <<>>, uuids |-> 0]

\* process(input), with no correlation overrides.
PipeProcess ==
    /\ pipe.input # <<>>
    /\ Len(pipe.runs) < MaxRuns
    /\ pipe' = [pipe EXCEPT
           !.runs = Append(@, process(pipe.input[1], NoInject, schemasLoaded,
                                      pipe.accepts, Uuid4(pipe.uuids), now)),
           !.uuids = @ + 1]
    /\ UNCHANGED <<listeners, circ, pending, fut, call, deliv, now,
                   schemasLoaded, shape, health, brk>>

\* process(canonical bytes of the first run); accepts says whether the
\* schema validates them, as before when they are the input again.
PipeProcessAgain(accepts) ==
    /\ pipe.runs # <<>>
    /\ pipe.runs[1].ok
    /\ pipe.again = <<>>
    /\ accepts => schemasLoaded
    /\ pipe.runs[1].canonical = pipe.input[1] => accepts = pipe.accepts
    /\ pipe' = [pipe EXCEPT
           !.again = <<process(pipe.runs[1].canonical, NoInject, schemasLoaded,
                               accepts, Uuid4(pipe.uuids), now)>>,
           !.uuids = @ + 1]
    /\ UNCHANGED <<listeners, circ, pending, fut, call, deliv, now,
                   schemasLoaded, shape, health, brk>>

NextPipe ==
    \/ PipeProcess
    \/ \E a \in BOOLEAN : PipeProcessAgain(a)
    \/ Tick

SpecPipe == InitPipe /\ [][NextPipe]_vars

\* ------------------------------------------------ CircuitBreaker on its own
MaxFailures == 7

\* The instants at which the breaker is called: the start, the last second
\* of a recovery window that began then and the first second after it, and
\* the same for a window that began one recovery_timeout later.
BreakerTimes ==
    {1, RecoveryTimeout, RecoveryTimeout + 1, 2 * RecoveryTimeout,
     2 * RecoveryTimeout + 1}

InitBreaker ==
    /\ InitBus
    /\ pipe = IdlePipe
    /\ brk = IdleBreaker
    /\ shape = [callers |-> 0, listeners |-> 0,
                requesters |-> 1]
    /\ schemasLoaded = FALSE

BoolName(v) == IF v THEN "True" ELSE "False"

\* What a call leaves in brk.
Called(cb, op, ret, streak) ==
    [cb |-> cb, op |-> op, ret |-> ret, calls |-> 1 - brk.calls, streak |-> streak]

BrkIsOpen ==
    /\ brk' = Called(is_open_effect(brk.cb, now), "is_open",
                     BoolName(is_open(brk.cb, now)), brk.streak)
    /\ UNCHANGED <<listeners, circ, pending, fut, call, deliv, now,
                   schemasLoaded, shape, health, pipe>>

BrkRecordSuccess ==
    /\ brk' = Called(record_success(brk.cb), "record_success", "none", NoStreak)
    /\ UNCHANGED <<listeners, circ, pending, fut, call, deliv, now,
                   schemasLoaded, shape, health, pipe>>

\* A record_failure that, on a breaker already OPEN, counts the failure and
\* keeps the time of the failure that opened it.
BrkRecordFailureStale ==
    /\ brk.cb.failure_count < MaxFailures
    /\ brk' = Called(IF brk.cb.state = "OPEN"
                     THEN [brk.cb EXCEPT !.failure_count = brk.cb.failure_count + 1]
                     ELSE record_failure(brk.cb, now),
                     "record_failure", "none",
                     IF brk.streak = NoStreak THEN NoStreak ELSE brk.streak + 1)
    /\ UNCHANGED <<listeners, circ, pending, fut, call, deliv, now,
                   schemasLoaded, shape, health, pipe>>

BrkRecordFailure ==
    /\ brk.cb.failure_count < MaxFailures
    /\ brk' = Called(record_failure(brk.cb, now), "record_failure", "none",
                     IF brk.streak = NoStreak THEN NoStreak ELSE brk.streak + 1)
    /\ UNCHANGED <<listeners, circ, pending, fut, call, deliv, now,
                   schemasLoaded, shape, health, pipe>>

BrkReset ==
    /\ brk' = Called(reset(brk.cb), "reset", "none", 0)
    /\ UNCHANGED <<listeners, circ, pending, fut, call, deliv, now,
                   schemasLoaded, shape, health, pipe>>

\* The state property: it calls is_open() and returns _state.
BrkState ==
    /\ brk' = Called(is_open_effect(brk.cb, now), "state",
                     is_open_effect(brk.cb, now).state, brk.streak)
    /\ UNCHANGED <<listeners, circ, pending, fut, call, deliv, now,
                   schemasLoaded, shape, health, pipe>>

BrkTick ==
    /\ \E t \in BreakerTimes : t > now /\ now' = t
    /\ UNCHANGED <<listeners, circ, pending, fut, call, deliv,
                   schemasLoaded, shape, health, pipe, brk>>

NextBreaker ==
    \/ BrkIsOpen
    \/ BrkRecordSuccess
    \/ BrkRecordFailure
    \/ BrkReset
    \/ BrkState
    \/ BrkTick

SpecBreaker == InitBreaker /\ [][NextBreaker]_vars

Next ==
    \/ \E t \in ListenerTemplates : Register(t.roots, t.version, t.priority)
    \/ \E s \in Slots, doc \in InputDocs, c \in Cardinalities : Request(s, doc, c)
    \/ \E s \in Slots, doc \in InputDocs, c \in {"one", "any"} : Publish(s, doc, c)
    \/ \E s \in Slots, a \in Ids \cup {NoId}, b \in Ids \cup {NoId} :
           Reply(s, a, b)
    \/ \E s \in Slots, l \in Lids : DeliverStart(s, l)
    \/ \E s \in Slots, l \in Lids : DeliverFail(s, l)
    \/ \E s \in Slots, l \in Lids : DeliverNone(s, l)
    \/ \E s \in Slots, l \in Lids, plain \in BOOLEAN, a \in Ids \cup {NoId} :
           DeliverReply(s, l, plain, a)
    \/ \E s \in Slots : Settle(s)
    \/ \E s \in Slots : RequestReturn(s)
    \/ \E s \in Slots : RequestTimeout(s)
    \/ \E s \in Slots : RequestTimeoutCleanup(s)
    \/ Close

Spec == Init /\ [][Next]_vars

SpecWide == InitWide /\ [][Next]_vars

NextClock == Next \/ Tick

\* Registrations alone: up to MaxRegistered listeners, any of the bindings
\* at any of MaxRegistered priorities.
MaxRegistered == 3

InitRegistry ==
    /\ InitBus
    /\ pipe = IdlePipe
    /\ brk = IdleBreaker
    /\ schemasLoaded = TRUE
    /\ shape = [callers |-> 0, listeners |-> MaxRegistered,
                requesters |-> 1]

NextRegistry ==
    \E t \in ListenerTemplates, p \in 0..(MaxRegistered - 1) :
        Register(t.roots, t.version, p)

SpecRegistry == InitRegistry /\ [][NextRegistry]_vars

\* Messages of two circuit keys published to two listeners: <task> with a
\* version (key (task, v1)) and without one (key (task, *)).
KeyDocs ==
    [root : {"task"}, version : MsgVersions \cup {NoVer}, mid : {NoId},
     irt : {NoId}, accepted : {FALSE}]

NextKeys ==
    \/ \E t \in ListenerTemplates : Register(t.roots, t.version, t.priority)
    \/ \E s \in Slots, doc \in KeyDocs : Publish(s, doc, "any")
    \/ \E s \in Slots, l \in Lids : DeliverStart(s, l)
    \/ \E s \in Slots, l \in Lids : DeliverFail(s, l)
    \/ \E s \in Slots, l \in Lids : DeliverNone(s, l)
    \/ \E s \in Slots, l \in Lids : DeliverReply(s, l, TRUE, NoId)
    \/ \E s \in Slots : Settle(s)

SpecKeys == InitWide /\ [][NextKeys]_vars

\* Two callers and one listener, with inputs the pipeline cannot repair
\* beside one it can.
RawDocs ==
    {[root |-> "task", version |-> "v1", mid |-> NoId, irt |-> NoId,
      accepted |-> FALSE],
     UnrepairableDoc}

NextRaw ==
    \/ \E t \in ListenerTemplates : Register(t.roots, t.version, t.priority)
    \/ \E s \in Slots, doc \in RawDocs : Request(s, doc, "one")
    \/ \E s \in Slots, doc \in RawDocs : Publish(s, doc, "any")
    \/ \E s \in Slots, l \in Lids : DeliverStart(s, l)
    \/ \E s \in Slots, l \in Lids : DeliverFail(s, l)
    \/ \E s \in Slots, l \in Lids : DeliverNone(s, l)
    \/ \E s \in Slots, l \in Lids : DeliverReply(s, l, TRUE, NoId)
    \/ \E s \in Slots : Settle(s)
    \/ \E s \in Slots : RequestReturn(s)
    \/ \E s \in Slots : RequestTimeout(s)
    \/ \E s \in Slots : RequestTimeoutCleanup(s)

SpecRaw == Init /\ [][NextRaw]_vars

\* Two callers that both issue requests, for documents that carry the same
\* message-id, to one listener.
TwinDocs ==
    {[root |-> "task", version |-> "v1", mid |-> 1, irt |-> NoId,
      accepted |-> FALSE]}

InitTwin ==
    /\ InitBus
    /\ pipe = IdlePipe
    /\ brk = IdleBreaker
    /\ schemasLoaded = TRUE
    /\ shape = [callers |-> MaxCallers, listeners |-> MaxListeners - 1,
                requesters |-> MaxCallers]

NextTwin ==
    \/ \E t \in ListenerTemplates : Register(t.roots, t.version, t.priority)
    \/ \E s \in Slots, doc \in TwinDocs, c \in Cardinalities : Request(s, doc, c)
    \/ \E s \in Slots, l \in Lids : DeliverStart(s, l)
    \/ \E s \in Slots, l \in Lids : DeliverFail(s, l)
    \/ \E s \in Slots, l \in Lids : DeliverNone(s, l)
    \/ \E s \in Slots, l \in Lids : DeliverReply(s, l, TRUE, NoId)
    \/ \E s \in Slots : Settle(s)
    \/ \E s \in Slots : RequestReturn(s)
    \/ \E s \in Slots : RequestTimeout(s)
    \/ \E s \in Slots : RequestTimeoutCleanup(s)

SpecTwin == InitTwin /\ [][NextTwin]_vars

NextHealth == Next \/ HealthPing

\* One caller and one listener, with the health task publishing its pings.
SpecHealth == InitClock /\ [][NextHealth]_vars

SpecClock == InitClock /\ [][NextClock]_vars

\* One caller and one listener over more than one recovery window, with
\* handlers that may also return bytes the pipeline rejects.
NextOutcomes ==
    \/ NextClock
    \/ \E s \in Slots, l \in Lids : DeliverUnrepairable(s, l)

SpecOutcomes == InitClock /\ [][NextOutcomes]_vars

\* ----------------------------------------------------------- scheduling
\* The handler of a running delivery ends: it returns, raises, or is
\* cancelled by wait_for at default_timeout.
HandlerEnds(s, l) ==
    \/ DeliverFail(s, l)
    \/ DeliverNone(s, l)
    \/ DeliverReply(s, l, TRUE, NoId)

\* The wait_for of request() ends: the future is resolved or the timeout
\* passes.
WaitEnds(s) == RequestReturn(s) \/ RequestTimeout(s)

\* What the event loop guarantees to the tasks of the bus: a task that can
\* run is run; asyncio.Semaphore wakes its waiters in the order they came,
\* so a delivery that finds a permit free again and again gets one; a
\* handler ends by its deadline; a timer that is due fires.  Callers and
\* close() are under no obligation.
Fairness ==
    /\ \A s \in Slots, l \in Lids : SF_vars(DeliverStart(s, l))
    /\ \A s \in Slots, l \in Lids : WF_vars(HandlerEnds(s, l))
    /\ \A s \in Slots : WF_vars(Settle(s))
    /\ \A s \in Slots : WF_vars(WaitEnds(s))
    /\ \A s \in Slots : WF_vars(RequestTimeoutCleanup(s))

\* Documents without a message-id of their own: <task version="v1">, and a
\* root no listener is bound to.
FairDocs ==
    {d \in InputDocs : d.mid = NoId /\ ~d.accepted}

NextFair ==
    \/ \E t \in ListenerTemplates : Register(t.roots, t.version, t.priority)
    \/ \E s \in Slots, doc \in FairDocs, c \in Cardinalities : Request(s, doc, c)
    \/ \E s \in Slots, doc \in FairDocs : Publish(s, doc, "any")
    \/ \E s \in Slots, l \in Lids : DeliverStart(s, l)
    \/ \E s \in Slots, l \in Lids : DeliverFail(s, l)
    \/ \E s \in Slots, l \in Lids : DeliverNone(s, l)
    \/ \E s \in Slots, l \in Lids : DeliverReply(s, l, TRUE, NoId)
    \/ \E s \in Slots : Settle(s)
    \/ \E s \in Slots : RequestReturn(s)
    \/ \E s \in Slots : RequestTimeout(s)
    \/ \E s \in Slots : RequestTimeoutCleanup(s)
    \/ Close

\* Two callers, both issuing requests and one of them publishing as well,
\* and one listener with one permit, under fair scheduling.
SpecFair == InitTwin /\ [][NextFair]_vars /\ Fairness

\* ======================================================================
\* Properties of the message bus
\* ======================================================================

\* A delivery step in which a handler's reply reaches _complete_request.
ReplyArrives ==
    \E t \in Slots, l \in Lids :
        deliv[t][l] = "running" /\ deliv'[t][l] \in ReplyStatuses

\* C1 (at-most-once completion): the future of a request is resolved at
\* most once; once it is resolved (result, exception or cancellation) it
\* never changes while request() is still running, and a reply that reaches
\* _complete_request afterwards leaves the request's pending entry as it was.
C1_AtMostOnceCompletion ==
    [][\A s \in Slots :
          /\ fut'[s].fires <= 1
          /\ (IsActive(call[s]) /\ IsActive(call'[s]) /\ call[s].op = "request"
                /\ done(fut[s]))
                => fut'[s] = fut[s]
          /\ ReplyArrives
                => \A i \in Ids :
                      (pending[i].owner = s /\ done(fut[s]))
                          => pending'[i] = pending[i]
      ]_vars

\* C1 witness: a request whose future was cancelled by its timeout still
\* owns its entry, and the reply of a handler invoked for the same message-id
\* by another caller has been dropped because that future was resolved.
C1_Witness ==
    \E s \in Slots, t \in Slots, l \in Lids :
        /\ t # s
        /\ call[s].pc = "timedout"
        /\ fut[s].state = "cancelled"
        /\ fut[s].fires = 1
        /\ pending[call[s].id].owner = s
        /\ call[t].id = call[s].id
        /\ deliv[t][l] = "late"

C3_CircuitIsolation ==
    [][\A s \in Slots, l \in Lids :
          (deliv[s][l] = "queued" /\ deliv'[s][l] = "running")
              => ~is_open(circ[l][CircuitKey(call[s].root, call[s].version)], now)
      ]_vars

\* The listeners that match and whose circuit is not open, as a set.
ViableListeners(root, version) ==
    {listeners[j] : j \in {k \in 1..Len(listeners) :
        /\ matches(listeners[k], root, version)
        /\ ~is_open(circ[listeners[k].lid][CircuitKey(root, version)], now)}}

\* a is ahead of b: higher priority, or equal priority and registered first.
Ahead(a, b) ==
    \/ a.priority > b.priority
    \/ a.priority = b.priority /\ a.lid < b.lid

\* C4 (priority, cardinality "one"): when a message with cardinality "one" is
\* routed, a delivery is created for exactly one listener, the viable one
\* with the highest priority (the earliest registered among equals), and for
\* none when no listener is viable; no delivery is created at any other time.
C4_PriorityForOne ==
    [][\A s \in Slots :
          /\ (~IsActive(call[s]) /\ IsActive(call'[s]) /\ call'[s].card = "one")
                => LET V == ViableListeners(call'[s].root, call'[s].version)
                       T == {l \in Lids : deliv'[s][l] # "none"}
                   IN  /\ \A l \in Lids : deliv'[s][l] \in {"none", "queued"}
                       /\ IF V = {} THEN T = {}
                          ELSE \E b \in V :
                                  /\ T = {b.lid}
                                  /\ \A o \in V \ {b} : Ahead(b, o)
          /\ \A l \in Lids :
                (deliv[s][l] = "none" /\ deliv'[s][l] # "none") => ~IsActive(call[s])
      ]_vars

\* C4 witness: two listeners match; the one of higher priority was registered
\* second and it alone has the delivery.
C4_Witness ==
    \E s \in Slots :
        /\ IsActive(call[s])
        /\ call[s].card = "one"
        /\ Len(listeners) = 2
        /\ listeners[1].lid = 2
        /\ listeners[1].priority > listeners[2].priority
        /\ matches(listeners[2], call[s].root, call[s].version)
        /\ deliv[s][listeners[1].lid] = "running"
        /\ deliv[s][listeners[2].lid] = "none"

\* C5 (no leak on timeout): when request() raises its timeout error the
\* entry of its message-id is gone from the pending table; a reply arriving
\* for an id without an entry creates none and changes no future of a caller
\* that owns no entry.
C5_NoLeakOnTimeout ==
    [][\A s \in Slots :
          /\ (call[s].pc = "timedout" /\ call'[s].pc = "done")
                => /\ call'[s].outcome = "timeout"
                   /\ pending'[call[s].id] = NoEntry
          /\ ReplyArrives
                => /\ \A i \in Ids : pending[i] = NoEntry => pending'[i] = NoEntry
                   /\ (\A i \in Ids : pending[i].owner # s) => fut'[s] = fut[s]
      ]_vars

\* C5 witness: a request has timed out, its entry is gone, and the reply of a
\* handler invoked for the same message-id by another caller has been dropped
\* for want of an entry.
C5_Witness ==
    \E s \in Slots, t \in Slots, l \in Lids :
        /\ t # s
        /\ call[s].pc = "done"
        /\ call[s].op = "request"
        /\ call[s].outcome = "timeout"
        /\ IsActive(call[t])
        /\ call[t].id = call[s].id
        /\ deliv[t][l] = "orphan"
        /\ pending[call[s].id] = NoEntry

\* C6 (no-listener NACK): a request that no registered listener matches has
\* failed with the no-listener error when request() returns, without any
\* delivery, and the pending table holds no entry of it.
C6_NoListenerNack ==
    \A s \in Slots :
        (call[s].pc = "done" /\ call[s].op = "request" /\ call[s].routed = "nomatch")
        => /\ call[s].outcome = "nolistener"
           /\ \A i \in Ids : pending[i].owner # s
           /\ \A l \in Lids : deliv[s][l] = "none"

\* C6 witness: a request was refused although a listener is registered (for
\* another root).
C6_Witness ==
    \E s \in Slots :
        /\ call[s].pc = "done"
        /\ call[s].op = "request"
        /\ call[s].routed = "nomatch"
        /\ call[s].outcome = "nolistener"
        /\ Len(listeners) > 0

\* C7 (circuit open), as the specification states it: a request whose
\* matching listeners all have an open circuit fails with the no-listener
\* error, so request() never waits on it.
C7_CircuitOpenIsNoListener ==
    \A s \in Slots :
        ~(/\ IsActive(call[s])
          /\ call[s].op = "request"
          /\ call[s].matchN >= 1
          /\ call[s].viableN = 0)

\* C8 (reply), as the specification states it: when reply() returns normally
\* for the id of a pending "one" or "any" request, that request's future
\* holds the reply and its entry is removed.
C8_ReplyCompletesPending ==
    [][\A t \in Slots :
          (/\ call[t].pc # "done"
           /\ call'[t].pc = "done"
           /\ call'[t].op = "reply"
           /\ call'[t].outcome = "ok"
           /\ pending[call'[t].id].owner # 0
           /\ pending[call'[t].id].cardinality \in {"one", "any"}
           /\ ~done(fut[pending[call'[t].id].owner]))
          => /\ pending'[call'[t].id] = NoEntry
             /\ fut'[pending[call'[t].id].owner].state = "result"
      ]_vars

\* C9 (reply correlation), as the specification states it: the in-reply-to
\* of a reply built from a plain handler result equals the id the request is
\* pending under, which is the message-id carried by the canonical bytes
\* delivered to the handler.
C9_ReplyCorrelation ==
    \A s \in Slots :
        (IsActive(call[s]) /\ call[s].op = "request" /\ fut[s].state = "result")
        => \A n \in 1..Len(fut[s].value) :
              fut[s].value[n].plain
                  => /\ fut[s].value[n].irt = call[s].id
                     /\ call[s].id = call[s].canonMid

\* C10 (handler failure isolation): a handler that raises or times out adds
\* exactly one failure to the circuit of its listener for the message's key
\* and changes nothing else: no other circuit, no other delivery, no caller,
\* no pending entry, no future; publish() returns normally and request()
\* ends only with a reply, the no-listener error, its timeout or cancellation.
C10_HandlerFailureIsolation ==
    [][/\ \A s \in Slots, l \in Lids :
            (deliv[s][l] = "running" /\ deliv'[s][l] = "failed")
            => LET k == CircuitKey(call[s].root, call[s].version) IN
               /\ circ'[l][k].failure_count = circ[l][k].failure_count + 1
               /\ \A l2 \in Lids, k2 \in CircuitKeys :
                     (l2 # l \/ k2 # k) => circ'[l2][k2] = circ[l2][k2]
               /\ \A t \in Slots, l2 \in Lids :
                     (t # s \/ l2 # l) => deliv'[t][l2] = deliv[t][l2]
               /\ call' = call
               /\ pending' = pending
               /\ fut' = fut
       /\ \A s \in Slots :
            call'[s].pc = "done"
            => \/ call'[s].op = "publish" /\ call'[s].outcome = "ok"
               \/ call'[s].op = "request"
                    /\ call'[s].outcome \in {"reply", "nolistener", "timeout", "cancelled"}
               \/ call'[s].op = "reply" /\ call'[s].outcome \in {"ok", "valueerror"}
      ]_vars

\* C10 witness: one listener's handler has failed while the delivery of the
\* same message to the other listener goes on or has replied.
C10_Witness ==
    \E s \in Slots, l1 \in Lids, l2 \in Lids :
        /\ l1 # l2
        /\ IsActive(call[s])
        /\ deliv[s][l1] = "failed"
        /\ deliv[s][l2] \in {"running", "replied"}
        /\ circ[l1][CircuitKey(call[s].root, call[s].version)].failure_count >= 1

\* ======================================================================
\* Properties of the pipeline
\* ======================================================================

\* Everything process() has returned so far.
PipeOutputs ==
    {pipe.runs[i] : i \in 1..Len(pipe.runs)} \cup {pipe.again[i] : i \in 1..Len(pipe.again)}

\* C11 (core fields), as the specification states it: the root of the
\* canonical bytes process() returns carries a message-id and a timestamp,
\* on every heal path.
C11_CoreFields ==
    \A out \in PipeOutputs :
        out.ok => /\ out.canonical.root.mid # NoId
                  /\ out.canonical.root.ts # NoTime

\* C12 (canonical idempotence), as the specification states it: processing
\* the canonical bytes of a run again returns the same bytes, with the same
\* message-id, timestamp and <huh> children.
C12_CanonicalIdempotence ==
    pipe.again # <<>> => pipe.again[1].canonical = pipe.runs[1].canonical

\* C13 (determinism), as the specification states it: two runs of process()
\* on the same input with the same schemas and overrides return identical
\* canonical bytes, whatever the clock and the generated identifiers.
C13_Determinism ==
    (Len(pipe.runs) = 2 /\ pipe.runs[1].ok)
        => pipe.runs[1].canonical = pipe.runs[2].canonical

\* ======================================================================
\* Properties of the circuit breaker
\* ======================================================================

\* A step in which the named method is called on the breaker.
BrkCall(op) == brk'.calls # brk.calls /\ brk'.op = op

\* C14 (CLOSED): in CLOSED, record_failure adds one to failure_count, sets
\* last_failure_time to the current time and opens the circuit exactly when
\* the new count reaches failure_threshold, staying CLOSED otherwise;
\* record_success stays CLOSED with failure_count = max(0, failure_count - 1).
\* Hence a breaker that has seen only failures since it was fresh is CLOSED
\* exactly while they number fewer than failure_threshold (5).
C14_BreakerClosed ==
    [][/\ (brk.cb.state = "CLOSED" /\ BrkCall("record_failure"))
            => /\ brk'.cb.failure_count = brk.cb.failure_count + 1
               /\ brk'.cb.last_failure_time = now
               /\ brk'.cb.success_count = brk.cb.success_count
               /\ brk'.cb.state =
                      IF brk.cb.failure_count + 1 >= FailureThreshold
                      THEN "OPEN" ELSE "CLOSED"
       /\ (brk.cb.state = "CLOSED" /\ BrkCall("record_success"))
            => /\ brk'.cb.state = "CLOSED"
               /\ brk'.cb.failure_count =
                      IF brk.cb.failure_count >= 1 THEN brk.cb.failure_count - 1 ELSE 0
               /\ brk'.cb.success_count = brk.cb.success_count
               /\ brk'.cb.last_failure_time = brk.cb.last_failure_time
       /\ brk'.streak # NoStreak
            => (brk'.cb.state = "CLOSED" <=> brk'.streak < FailureThreshold)
      ]_vars

\* C14 witness: the fifth failure in a row on a fresh breaker has just
\* opened it.
C14_Witness ==
    /\ brk.op = "record_failure"
    /\ brk.streak = FailureThreshold
    /\ brk.cb.state = "OPEN"
    /\ brk.cb.failure_count = FailureThreshold

\* C15 (OPEN): is_open() returns true and changes nothing while the circuit
\* is OPEN and less than recovery_timeout has passed since the last failure;
\* at or after recovery_timeout it moves the breaker to HALF_OPEN with
\* success_count 0 and returns false; in CLOSED and HALF_OPEN it returns
\* false and changes nothing.
C15_BreakerOpen ==
    [][BrkCall("is_open")
          => IF brk.cb.state = "OPEN"
             THEN IF now - brk.cb.last_failure_time < RecoveryTimeout
                  THEN brk'.ret = "True" /\ brk'.cb = brk.cb
                  ELSE /\ brk'.ret = "False"
                       /\ brk'.cb = [brk.cb EXCEPT !.state = "HALF_OPEN",
                                                   !.success_count = 0]
             ELSE brk'.ret = "False" /\ brk'.cb = brk.cb
      ]_vars

\* C15 witness: a probe exactly recovery_timeout after the last failure has
\* returned false and left the breaker HALF_OPEN.
C15_Witness ==
    /\ brk.op = "is_open"
    /\ brk.ret = "False"
    /\ brk.cb.state = "HALF_OPEN"
    /\ now - brk.cb.last_failure_time = RecoveryTimeout

\* C16 (HALF_OPEN): in HALF_OPEN, record_failure reopens the circuit with
\* last_failure_time set to the current time; record_success adds one to
\* success_count and closes the circuit with failure_count 0 exactly when
\* the new count reaches success_threshold, staying HALF_OPEN otherwise.
\* A HALF_OPEN breaker always has fewer than success_threshold (2)
\* successes, so two in a row close it.
C16_BreakerHalfOpen ==
    [][/\ (brk.cb.state = "HALF_OPEN" /\ BrkCall("record_failure"))
            => /\ brk'.cb.state = "OPEN"
               /\ brk'.cb.last_failure_time = now
       /\ (brk.cb.state = "HALF_OPEN" /\ BrkCall("record_success"))
            => /\ brk'.cb.success_count = brk.cb.success_count + 1
               /\ brk'.cb.last_failure_time = brk.cb.last_failure_time
               /\ IF brk.cb.success_count + 1 >= SuccessThreshold
                  THEN brk'.cb.state = "CLOSED" /\ brk'.cb.failure_count = 0
                  ELSE /\ brk'.cb.state = "HALF_OPEN"
                       /\ brk'.cb.failure_count = brk.cb.failure_count
       /\ brk'.cb.state = "HALF_OPEN"
            => brk'.cb.success_count < SuccessThreshold
      ]_vars

\* C16 witness: the second success in HALF_OPEN has just closed the circuit.
C16_Witness ==
    /\ brk.op = "record_success"
    /\ brk.cb.state = "CLOSED"
    /\ brk.cb.success_count = SuccessThreshold
    /\ brk.cb.failure_count = 0
    /\ brk.cb.last_failure_time # NoTime

\* ======================================================================
\* Properties of close(), the registry and the concurrency gate
\* ======================================================================

\* C17 (close): when close() returns the pending table is empty and the
\* future of every request that had an entry is cancelled; the caller of a
\* request whose future was cancelled gets the cancellation, not a reply;
\* and once close() has run the health task is over and publishes no ping.
C17_Close ==
    [][/\ (health.state = "running" /\ health'.state = "done")
            => /\ \A i \in Ids : pending'[i] = NoEntry
               /\ \A s \in Slots :
                     (\E i \in Ids : pending[i].owner = s)
                         => fut'[s].state = "cancelled"
       /\ \A s \in Slots :
             (call[s].pc = "waiting" /\ call'[s].pc = "done"
                 /\ fut[s].state = "cancelled")
                 => call'[s].outcome = "cancelled"
       /\ health.state = "done" => health' = health
      ]_vars

\* C17 witness: the health task had published a ping, close() has run, and
\* a request it cancelled has returned to its caller.
C17_Witness ==
    /\ health.state = "done"
    /\ health.pings >= 1
    /\ \A i \in Ids : pending[i] = NoEntry
    /\ \E s \in Slots :
          /\ call[s].pc = "done"
          /\ call[s].op = "request"
          /\ call[s].outcome = "cancelled"

\* C18 (registry order): after any sequence of registrations the listener
\* list is in descending priority, and listeners of equal priority are in
\* the order of their registration (lid is the registration number).
C18_RegistryOrder ==
    \A i, j \in 1..Len(listeners) :
        i < j => \/ listeners[i].priority > listeners[j].priority
                 \/ /\ listeners[i].priority = listeners[j].priority
                    /\ listeners[i].lid < listeners[j].lid

\* C18 witness: the listener registered last has moved to the front, past
\* two listeners of one priority that stay in registration order.
C18_Witness ==
    /\ Len(listeners) = 3
    /\ listeners[1].lid = 3
    /\ listeners[2].priority = listeners[3].priority
    /\ listeners[2].lid = 1
    /\ listeners[3].lid = 2

\* The ways a delivery leaves the handler: exception or deadline, None, a
\* reply (taken or dropped), or a reply the pipeline rejected.
DeliveryExits == {"failed", "returned", "crashed"} \cup ReplyStatuses

\* C19 (concurrency gate): at every moment a listener's handler runs in at
\* most max_concurrent_per_listener deliveries; a waiting delivery enters
\* the handler only when a permit is free; and a delivery that leaves the
\* handler, by a reply, by None or by an exception, gives its permit back.
C19_ConcurrencyGate ==
    /\ [](\A l \in Lids : Cardinality(Running(l)) <= MaxConcurrentPerListener)
    /\ [][\A s \in Slots, l \in Lids :
            /\ (deliv[s][l] = "queued" /\ deliv'[s][l] # "queued")
                   => /\ deliv'[s][l] = "running"
                      /\ Cardinality(Running(l)) < MaxConcurrentPerListener
            /\ (deliv[s][l] = "running" /\ deliv'[s][l] # "running")
                   => /\ deliv'[s][l] \in DeliveryExits
                      /\ Cardinality({t \in Slots : deliv'[t][l] = "running"})
                             = Cardinality(Running(l)) - 1
         ]_vars

\* C19 witness: every permit of a listener is taken and a further delivery
\* to it is waiting.
C19_Witness ==
    \E l \in Lids, s \in Slots, t \in Slots :
        /\ s # t
        /\ deliv[s][l] = "running"
        /\ deliv[t][l] = "queued"
        /\ Cardinality(Running(l)) = MaxConcurrentPerListener

\* ======================================================================
\* Properties of reply()
\* ======================================================================

\* C20 (reply fail-fast): a reply() with no in_reply_to on the reply and no
\* original_id raises ValueError in the step of the call, and that step
\* leaves the pending table, the futures, the listeners, every circuit and
\* every delivery as they were; a reply() that gets as far as routing has a
\* correlation target.
C20_ReplyFailFast ==
    [][\A s \in Slots :
          /\ (call'[s] # call[s] /\ call'[s].op = "reply"
                  /\ call'[s].outcome = "valueerror")
                 => /\ call'[s].pc = "done"
                    /\ UNCHANGED <<pending, fut, listeners, circ, deliv>>
          /\ (call'[s] # call[s] /\ call'[s].op = "reply"
                  /\ call[s].pc # "routing"
                  /\ call'[s].outcome # "valueerror")
                 => call'[s].id # NoId
      ]_vars

\* C20 witness: a reply() has raised ValueError while the request of another
\* caller is pending with a delivery under way.
C20_Witness ==
    \E s \in Slots, t \in Slots :
        /\ s # t
        /\ call[s].pc = "done"
        /\ call[s].op = "reply"
        /\ call[s].outcome = "valueerror"
        /\ call[t].op = "request"
        /\ call[t].pc = "routing"
        /\ \E i \in Ids : pending[i].owner = t
        /\ \E l \in Lids : deliv[t][l] \in {"queued", "running"}

\* ======================================================================
\* Further properties of the pipeline
\* ======================================================================

\* The bytes each output was computed from: the input for the runs, the
\* canonical bytes of the first run for the run on them.
PipeCalls ==
    {<<pipe.input[1], pipe.runs[i]>> : i \in 1..Len(pipe.runs)}
        \cup {<<pipe.runs[1].canonical, pipe.again[i]>> : i \in 1..Len(pipe.again)}

C26_CoreFieldsPreserved ==
    \A c \in PipeCalls :
        c[2].ok
            => /\ c[1].root.mid # NoId
                     => c[2].canonical.root.mid = c[1].root.mid
               /\ c[1].root.ts # NoTime
                     => c[2].canonical.root.ts = c[1].root.ts

\* C27 (children survive), as the specification states it: with no schema
\* loaded the root of the canonical bytes has the repair marker <huh> as
\* its first child, followed by every child of the input root in order.
C27_ChildrenSurvive ==
    \A c \in PipeCalls :
        (c[2].ok /\ ~schemasLoaded)
            => LET kids == c[2].canonical.root.kids
               IN  /\ Len(kids) = Len(c[1].root.kids) + 1
                   /\ kids[1].name = "huh"
                   /\ SubSeq(kids, 2, Len(kids)) = c[1].root.kids

\* ======================================================================
\* Further properties of the bus
\* ======================================================================

\* C22 (request timeout versus in-flight handlers), as the specification
\* states it: the timeout of request() runs while the handlers dispatched
\* for it are in flight, so whenever a handler of an unanswered request is
\* running the request can fail with the timeout error at that moment.
C22_TimeoutCoversHandlers ==
    \A s \in Slots :
        (/\ call[s].op = "request"
         /\ IsActive(call[s])
         /\ ~done(fut[s])
         /\ \E l \in Lids : deliv[s][l] = "running")
            => ENABLED RequestTimeout(s)

\* C28 (unrepairable input): when process() fails on the input of
\* request() or publish(), the call ends with the parser's error in that
\* step, which creates no pending entry and no delivery and leaves the
\* pending table, the futures, the listeners and every circuit as they were.
C28_UnrepairableLeavesBus ==
    [][\A s \in Slots :
          /\ (\E c \in Cardinalities : Request(s, UnrepairableDoc, c))
                => /\ call'[s] = Finished("request", NoId, "xmlsyntaxerror", 0, 0)
                   /\ UNCHANGED <<pending, fut, listeners, circ, deliv>>
          /\ (\E c \in Cardinalities : Publish(s, UnrepairableDoc, c))
                => /\ call'[s] = Finished("publish", NoId, "xmlsyntaxerror", 0, 0)
                   /\ UNCHANGED <<pending, fut, listeners, circ, deliv>>
          /\ (call'[s] # call[s] /\ call'[s].outcome = "xmlsyntaxerror")
                => UNCHANGED <<pending, fut, listeners, circ, deliv>>
      ]_vars

\* C28 witness: a request() has raised on unrepairable bytes while a
\* published message is with a handler, and no pending entry exists.
C28_Witness ==
    \E s \in Slots, t \in Slots, l \in Lids :
        /\ s # t
        /\ call[s].pc = "done"
        /\ call[s].op = "request"
        /\ call[s].outcome = "xmlsyntaxerror"
        /\ \A i \in Ids : pending[i] = NoEntry
        /\ call[t].pc = "routing"
        /\ deliv[t][l] = "running"

\* C23 (cardinality "any"): a message routed with cardinality "any" gets one
\* delivery for every viable listener and for no other, and each delivery
\* enters its handler once before the routing ends; a request with
\* cardinality "any" is resolved by the first reply that reaches
\* _complete_request, which removes its entry, and no later reply changes
\* the value it holds.
C23_CardinalityAny ==
    [][\A s \in Slots :
          /\ (~IsActive(call[s]) /\ IsActive(call'[s]) /\ call'[s].card = "any")
                => /\ {l \in Lids : deliv'[s][l] = "queued"}
                          = {v.lid : v \in ViableListeners(call'[s].root,
                                                           call'[s].version)}
                   /\ \A l \in Lids : deliv'[s][l] \in {"none", "queued"}
          /\ (IsActive(call[s]) /\ call[s].card = "any")
                => \A l \in Lids :
                      \/ deliv'[s][l] = deliv[s][l]
                      \/ deliv[s][l] = "queued" /\ deliv'[s][l] = "running"
                      \/ deliv[s][l] = "running" /\ deliv'[s][l] \in DeliveryExits
                      \/ /\ call[s].pc = "routing" /\ call'[s].pc # "routing"
                         /\ deliv[s][l] \in DeliveryExits
                         /\ deliv'[s][l] = "none"
          /\ (/\ IsActive(call[s]) /\ call[s].op = "request"
              /\ call[s].card = "any"
              /\ fut[s].state = "pending" /\ fut'[s].state = "result")
                => /\ \E t \in Slots, l \in Lids :
                         /\ deliv[t][l] = "running"
                         /\ deliv'[t][l] = "replied"
                         /\ Len(fut'[s].value) = 1
                         /\ fut'[s].value[1].lst = l
                   /\ pending'[call[s].id] = NoEntry
          /\ (/\ IsActive(call[s]) /\ IsActive(call'[s])
              /\ call[s].op = "request" /\ call[s].card = "any"
              /\ fut[s].state = "result")
                => fut'[s] = fut[s]
      ]_vars

\* C23 witness: a request with cardinality "any" went to two listeners; the
\* reply of one resolved it and the reply of the other was dropped.
C23_Witness ==
    \E s \in Slots, a \in Lids, b \in Lids :
        /\ a # b
        /\ IsActive(call[s])
        /\ call[s].op = "request"
        /\ call[s].card = "any"
        /\ call[s].viableN = 2
        /\ deliv[s][a] = "replied"
        /\ deliv[s][b] = "orphan"
        /\ fut[s].state = "result"
        /\ fut[s].value[1].lst = a

\* The (root, version) key of the message a call routes.
KeyOfCall(c) == <<c.root, IF c.version = NoVer THEN "*" ELSE c.version>>

\* C24 (circuit independence): the success or failure a delivery of
\* (root r, version v) to listener L records changes L's circuit of key
\* (r, v) and nothing else: L's circuits of the other keys and every circuit
\* of the other listeners stay as they were, and so does what is_open()
\* answers for them.
C24_CircuitIndependence ==
    [][\A s \in Slots, l \in Lids :
          (deliv[s][l] = "running" /\ deliv'[s][l] \in DeliveryExits)
              => /\ circ'[l][KeyOfCall(call[s])]
                        \in {record_success(circ[l][KeyOfCall(call[s])]),
                             record_failure(circ[l][KeyOfCall(call[s])], now)}
                 /\ \A m \in Lids, k \in CircuitKeys :
                       (m # l \/ k # KeyOfCall(call[s]))
                           => /\ circ'[m][k] = circ[m][k]
                              /\ is_open(circ'[m][k], now) = is_open(circ[m][k], now)
      ]_vars

\* C24 witness: a listener's circuit for (task, v1) is open after its
\* failures, the other listener's circuit for that key is closed, and the
\* first listener is running a delivery of a <task> without version, whose
\* circuit is closed and has seen no failure.
C24_Witness ==
    \E s \in Slots, l \in Lids, m \in Lids :
        /\ m # l
        /\ Len(listeners) = 2
        /\ circ[l][<<"task", "v1">>].state = "OPEN"
        /\ circ[m][<<"task", "v1">>].state = "CLOSED"
        /\ circ[l][<<"task", "*">>].state = "CLOSED"
        /\ circ[l][<<"task", "*">>].failure_count = 0
        /\ call[s].version = NoVer
        /\ deliv[s][l] = "running"

\* C29 (outstanding requests do not interfere), as the specification
\* states it: of two requests outstanding with the same message-id each
\* keeps its own pending state, so a request whose future is unresolved
\* owns an entry, and the timeout cleanup of one request removes no entry
\* owned by the other.
C29_NoInterference ==
    /\ [](\A s \in Slots :
             (IsActive(call[s]) /\ call[s].op = "request" /\ ~done(fut[s]))
                 => \E i \in Ids : pending[i].owner = s)
    /\ [][\A s \in Slots :
            (call[s].pc = "timedout" /\ call'[s].pc = "done")
                => \A i \in Ids :
                      pending[i].owner \notin {0, s} => pending'[i] = pending[i]
         ]_vars

\* ======================================================================
\* Further properties of the circuit breaker
\* ======================================================================

\* C25 (reads), as the specification states it: is_open() is the only read
\* that changes a breaker; reading the state property leaves _state,
\* _failure_count, _success_count and _last_failure_time as they were.
C25_StateReadIsPure ==
    [][BrkCall("state") => brk'.cb = brk.cb]_vars

C32_OutcomesWhileOpen ==
    [][/\ (brk.cb.state = "OPEN" /\ BrkCall("record_success"))
            => brk'.cb = brk.cb
       /\ (brk.cb.state = "OPEN" /\ BrkCall("record_failure"))
            => /\ brk'.cb.state = "OPEN"
               /\ brk'.cb.failure_count = brk.cb.failure_count + 1
               /\ brk'.cb.success_count = brk.cb.success_count
               /\ brk'.cb.last_failure_time = now
               /\ \A t \in BreakerTimes :
                      t >= now => (is_open(brk'.cb, t)
                                      <=> t - now < RecoveryTimeout)
      ]_vars

\* C32 witness: a breaker opened by five failures in a row has recorded a
\* sixth at a later instant, before any recovery could have begun, and its
\* window now starts at that instant.
C32_Witness ==
    /\ brk.op = "record_failure"
    /\ brk.streak = FailureThreshold + 1
    /\ brk.cb.state = "OPEN"
    /\ brk.cb.failure_count = FailureThreshold + 1
    /\ now = RecoveryTimeout
    /\ brk.cb.last_failure_time = now

\* C32 witness of the other half: a success recorded on an OPEN breaker.
C32_WitnessSuccess ==
    /\ brk.op = "record_success"
    /\ brk.cb.state = "OPEN"
    /\ brk.cb.failure_count = FailureThreshold

\* ======================================================================
\* Properties of the outcomes a delivery records
\* ======================================================================

\* A step in which the delivery of caller s to listener l leaves its handler.
Leaves(s, l) == deliv[s][l] = "running" /\ deliv'[s][l] # "running"

\* C33 (one outcome per invocation): the step in which a handler invocation
\* ends changes the listener's circuit of the message's (root, version) by
\* exactly one call, record_failure at the current time when the handler
\* raised or passed its deadline (and then no pending entry or future
\* changes: no reply is produced), record_success when it returned, with a
\* reply, with none, or with one whose processing failed afterwards (and
\* then too nothing is completed); every other circuit stays as it was, and
\* a step in which no invocation ends records nothing: a circuit changes
\* in it only as is_open() changes it.
C33_OneOutcomePerInvocation ==
    [][/\ \A s \in Slots, l \in Lids :
             Leaves(s, l)
                 => /\ deliv'[s][l] \in DeliveryExits
                    /\ circ'[l][KeyOfCall(call[s])] =
                           IF deliv'[s][l] = "failed"
                           THEN record_failure(circ[l][KeyOfCall(call[s])], now)
                           ELSE record_success(circ[l][KeyOfCall(call[s])])
                    /\ deliv'[s][l] \in {"failed", "crashed", "returned"}
                           => pending' = pending /\ fut' = fut
                    /\ \A m \in Lids, k \in CircuitKeys :
                          (m # l \/ k # KeyOfCall(call[s]))
                              => circ'[m][k] = circ[m][k]
       /\ (\A s \in Slots, l \in Lids : ~Leaves(s, l))
             => \A m \in Lids, k \in CircuitKeys :
                   circ'[m][k] \in {circ[m][k], is_open_effect(circ[m][k], now)}
      ]_vars

\* C33 witness: on one circuit a handler failed at the start, in a later
\* invocation returned None, which took the failure back, and in a third,
\* after the clock moved, returned a reply the pipeline rejected, which
\* recorded a success and nothing else.
C33_Witness ==
    \E s \in Slots, l \in Lids :
        /\ deliv[s][l] = "crashed"
        /\ now > 1
        /\ circ[l][KeyOfCall(call[s])].failure_count = 0
        /\ circ[l][KeyOfCall(call[s])].last_failure_time = 1
        /\ circ[l][KeyOfCall(call[s])].state = "CLOSED"

\* C33 witness of the failure half: an invocation that ended at its deadline,
\* after the clock moved, recorded one failure at that time.
C33_WitnessFailure ==
    \E s \in Slots, l \in Lids :
        /\ deliv[s][l] = "failed"
        /\ now > 1
        /\ circ[l][KeyOfCall(call[s])].failure_count = 1
        /\ circ[l][KeyOfCall(call[s])].last_failure_time = now

\* ======================================================================
\* Termination
\* ======================================================================

\* The ways request() ends once its message is in the bus.
RequestOutcomes == {"reply", "nolistener", "timeout", "cancelled"}

\* C31 (every request terminates): under fair scheduling, with handlers that
\* end by their deadline, every call of request() that is routing its
\* message, waiting behind a listener's concurrency gate or waiting on its
\* completion handle eventually returns its reply (or reply list) or fails
\* with the no-listener error, its timeout, or cancellation by close(); and
\* a request() that has ended has ended in one of these ways.
C31_RequestTerminates ==
    /\ \A s \in Slots :
          (call[s].op = "request" /\ Active(s))
              ~> (/\ call[s].op = "request"
                  /\ call[s].pc = "done"
                  /\ call[s].outcome \in RequestOutcomes)
    /\ [](\A s \in Slots :
             (call[s].op = "request" /\ call[s].pc = "done")
                 => call[s].outcome \in RequestOutcomes)

\* C31 witness: a request whose delivery waits at the listener's gate while
\* the only permit is held by the delivery of another caller's publish.
C31_Witness ==
    \E s \in Slots, t \in Slots, l \in Lids :
        /\ s # t
        /\ call[s].op = "request"
        /\ call[s].pc = "routing"
        /\ deliv[s][l] = "queued"
        /\ call[t].op = "publish"
        /\ deliv[t][l] = "running"

\* C31 witness of the completion handle: a request whose handler returned
\* no reply waits on its future, which only the timeout or close() can end.
C31_WitnessWaiting ==
    \E s \in Slots :
        /\ call[s].op = "request"
        /\ call[s].pc = "waiting"
        /\ fut[s].state = "pending"
        /\ call[s].viableN = 1
        /\ \A l \in Lids : deliv[s][l] = "none"

\* C31 witness of cancellation: a request that close() cancelled has
\* returned to its caller.
C31_WitnessCancelled ==
    \E s \in Slots :
        /\ call[s].op = "request"
        /\ call[s].pc = "done"
        /\ call[s].outcome = "cancelled"
        /\ health.state = "done"

====
